---- MODULE Spec2Model ----
(***************************************************************************)
(* Model of process_pdfs.py: analyze_document_structure and its helpers.   *)
(* A text is a sequence of one-character strings, so that the regular      *)
(* expressions and string methods of the source are computed character by  *)
(* character.  Font sizes of spans are kept in half points (size2), so     *)
(* that round() is a real conversion; vertical coordinates are integers.   *)
(***************************************************************************)
EXTENDS Integers, Sequences, FiniteSets, TLC

----------------------------------------------------------------------------
(* Character classes of the regular expressions                            *)

Digits == {"0", "1", "2", "3", "4", "5", "6", "7", "8", "9"}

UpperSeq == <<"A", "B", "C", "D", "E", "F", "G", "H", "I", "J", "K", "L", "M",
              "N", "O", "P", "Q", "R", "S", "T", "U", "V", "W", "X", "Y", "Z">>

LowerSeq == <<"a", "b", "c", "d", "e", "f", "g", "h", "i", "j", "k", "l", "m",
              "n", "o", "p", "q", "r", "s", "t", "u", "v", "w", "x", "y", "z">>

Upper == {UpperSeq[i] : i \in 1..26}

Lower == {LowerSeq[i] : i \in 1..26}

\* [A-Za-z]
IsAlpha(c) == c \in Upper \cup Lower

\* \w
IsWordChar(c) == c \in Upper \cup Lower \cup Digits \cup {"_"}

\* \s
IsSpace(c) == c \in {" ", "\t", "\n", "\r", "\f"}

\* str.lower() on one character
LowerChar(c) ==
    IF c \in Upper THEN LowerSeq[CHOOSE i \in 1..26 : UpperSeq[i] = c] ELSE c

\* str.lower()
LowerText(s) == [i \in 1..Len(s) |-> LowerChar(s[i])]

----------------------------------------------------------------------------
(* String methods                                                          *)

RECURSIVE LStrip(_)
LStrip(s) == IF s # << >> /\ IsSpace(Head(s)) THEN LStrip(Tail(s)) ELSE s

RECURSIVE RStrip(_)
RStrip(s) ==
    IF s # << >> /\ IsSpace(s[Len(s)]) THEN RStrip(SubSeq(s, 1, Len(s) - 1)) ELSE s

\* str.strip()
Strip(s) == RStrip(LStrip(s))

\* len(text.split()): the number of maximal runs of non-whitespace
WordCount(s) ==
    Cardinality({i \in 1..Len(s) : ~IsSpace(s[i]) /\ (i = 1 \/ IsSpace(s[i - 1]))})

\* str.startswith(prefix)
StartsWith(s, prefix) ==
    Len(s) >= Len(prefix) /\ SubSeq(s, 1, Len(prefix)) = prefix

\* str.endswith('.')
EndsWithDot(s) == s # << >> /\ s[Len(s)] = "."

\* " ".join(parts)
RECURSIVE JoinSpace(_)
JoinSpace(parts) ==
    IF parts = << >> THEN << >>
    ELSE IF Len(parts) = 1 THEN parts[1]
    ELSE parts[1] \o <<" ">> \o JoinSpace(Tail(parts))

----------------------------------------------------------------------------
(* clean_title                                                             *)

\* the value None
None == <<"None">>

\* mutant of RemoveSpecial: the '.' is kept as well
RemoveSpecial_KeepDot(s) ==
    SelectSeq(s, LAMBDA c : IsWordChar(c) \/ IsSpace(c) \/ c \in {"-", ":", "."})

\* re.sub(r'[^\w\s\-:]', '', title)
RemoveSpecial(s) ==
    SelectSeq(s, LAMBDA c : IsWordChar(c) \/ IsSpace(c) \/ c \in {"-", ":"})

\* re.sub(r'\s+', ' ', title)
RECURSIVE CollapseSpaces(_)
CollapseSpaces(s) ==
    IF s = << >> THEN << >>
    ELSE IF IsSpace(Head(s)) THEN <<" ">> \o CollapseSpaces(LStrip(s))
    ELSE <<Head(s)>> \o CollapseSpaces(Tail(s))

\* re.search(r'[A-Za-z]', title)
HasAlpha(s) == \E i \in 1..Len(s) : IsAlpha(s[i])

MinTitleLen == 5

Sanitize(title) == CollapseSpaces(RemoveSpecial(Strip(title)))

clean_title(title) ==
    LET t == Sanitize(title)
    IN  IF Len(t) < MinTitleLen \/ ~HasAlpha(t) THEN None ELSE t

----------------------------------------------------------------------------
(* Regular expressions of the junk filter and of the score                 *)

\* the number of leading characters of s matched by \d*
RECURSIVE LeadingDigits(_)
LeadingDigits(s) ==
    IF s # << >> /\ Head(s) \in Digits THEN 1 + LeadingDigits(Tail(s)) ELSE 0

\* re.fullmatch(r'[.\-–—•\s]{5,}', text); the dashes and the bullet beyond
\* ASCII are written by name
IsDotsLine(text) ==
    /\ Len(text) >= 5
    /\ \A i \in 1..Len(text) :
           text[i] \in {".", "-", "en-dash", "em-dash", "bullet"} \/ IsSpace(text[i])

\* re.fullmatch(r'\d+[\.:]?', text)
IsPureNumber(text) ==
    LET n == LeadingDigits(text)
    IN  /\ n >= 1
        /\ \/ Len(text) = n
           \/ Len(text) = n + 1 /\ text[n + 1] \in {".", ":"}

\* text.lower().startswith("table of contents")
TableOfContents ==
    <<"t", "a", "b", "l", "e", " ", "o", "f", " ",
      "c", "o", "n", "t", "e", "n", "t", "s">>

IsTableOfContents(text) == StartsWith(LowerText(text), TableOfContents)

\* mutant of IsListPrefix: only '.' ends the number
IsListPrefix_DotOnly(text) ==
    LET a == LStrip(text)
        n == LeadingDigits(a)
    IN  /\ n >= 1
        /\ Len(a) >= n + 2
        /\ a[n + 1] = "."
        /\ IsSpace(a[n + 2])

\* re.match(r'^\s*\d+[\.\):]\s+', text)
IsListPrefix(text) ==
    LET a == LStrip(text)
        n == LeadingDigits(a)
    IN  /\ n >= 1
        /\ Len(a) >= n + 2
        /\ a[n + 1] \in {".", ")", ":"}
        /\ IsSpace(a[n + 2])

\* the number of leading characters of s matched by (\.\d+)*
RECURSIVE DottedGroups(_)
DottedGroups(s) ==
    IF s # << >> /\ Head(s) = "." /\ LeadingDigits(Tail(s)) >= 1
    THEN LET n == LeadingDigits(Tail(s))
         IN  1 + n + DottedGroups(SubSeq(s, n + 2, Len(s)))
    ELSE 0

\* re.match(r'^\s*(\d+(\.\d+)*|[A-Z])[\.\):\-]\s+[A-Z]', text)
IsStructuredHeading(text) ==
    LET a == LStrip(text)
        n == LeadingDigits(a)
        k == IF n >= 1 THEN n + DottedGroups(SubSeq(a, n + 1, Len(a)))
             ELSE IF a # << >> /\ a[1] \in Upper THEN 1
             ELSE 0
        rest == SubSeq(a, k + 2, Len(a))
    IN  /\ k >= 1
        /\ Len(a) >= k + 1
        /\ a[k + 1] \in {".", ")", ":", "-"}
        /\ rest # << >>
        /\ IsSpace(rest[1])
        /\ LStrip(rest) # << >>
        /\ Head(LStrip(rest)) \in Upper

\* "bold" in font.lower()
Bold == <<"b", "o", "l", "d">>

ContainsBold(font) ==
    LET f == LowerText(font)
    IN  \E i \in 1..Len(f) : StartsWith(SubSeq(f, i, Len(f)), Bold)

\* round(x) of a size given in half points: Python rounds a half to the even
\* integer
Round2(size2) ==
    LET f == size2 \div 2
    IN  IF size2 % 2 = 0 THEN f
        ELSE IF f % 2 = 0 THEN f ELSE f + 1

----------------------------------------------------------------------------
(* The document.  doc.lines is the layout in reading order: each line has   *)
(* its page (1-based), its block on the page, its spans (text, size2 in     *)
(* half points, font) and the top (y0) and bottom (y1) of its bounding box. *)
(* doc.heights[p] is the height of page p, doc.meta_title the metadata      *)
(* title.                                                                   *)

VARIABLES doc, pc, body_size, all_lines, is_cover, footers_to_ignore,
          candidates, outline, emitted, defaulted, title, cleaned

vars == <<doc, pc, body_size, all_lines, is_cover, footers_to_ignore,
          candidates, outline, emitted, defaulted, title, cleaned>>

DefaultBodySize == 10

\* get_body_style: the pages sampled (0-based), a set
BodyPages(page_count) ==
    {p \in {0, 1, page_count \div 2, page_count - 1} : 0 <= p /\ p < page_count}

\* the rounded sizes of the spans with non-blank text, in the order the
\* counter meets them: the sampled pages in ascending order, the lines of a
\* page in the order of doc.lines
RECURSIVE SpanSizes(_)
SpanSizes(spans) ==
    IF spans = << >> THEN << >>
    ELSE (IF Strip(Head(spans).text) # << >>
          THEN <<Round2(Head(spans).size2)>> ELSE << >>)
         \o SpanSizes(Tail(spans))

RECURSIVE SampledSizes(_, _)
SampledSizes(lines, pages) ==
    IF lines = << >> THEN << >>
    ELSE (IF Head(lines).page - 1 \in pages
          THEN SpanSizes(Head(lines).spans) ELSE << >>)
         \o SampledSizes(Tail(lines), pages)

\* Counter.most_common(1)[0][0]: the most frequent value, the first one met
\* among equally frequent ones
MostCommon(sizes) ==
    LET Count(v) == Cardinality({i \in 1..Len(sizes) : sizes[i] = v})
        First(v) == CHOOSE i \in 1..Len(sizes) :
                        sizes[i] = v /\ \A j \in 1..(i - 1) : sizes[j] # v
        Values == {sizes[i] : i \in 1..Len(sizes)}
    IN  CHOOSE v \in Values :
            \A w \in Values :
                Count(v) > Count(w) \/ (Count(v) = Count(w) /\ First(v) <= First(w))

get_body_style(d) ==
    LET sizes == SampledSizes(d.lines, BodyPages(d.page_count))
    IN  IF sizes # << >> THEN MostCommon(sizes) ELSE DefaultBodySize

\* " ".join([s['text'] for s in line['spans']]).strip()
LineText(spans) == Strip(JoinSpace([i \in 1..Len(spans) |-> spans[i].text]))

\* reconstruct_lines_with_spacing: last_y1 is the bottom of the last line
\* kept in the block of lines[i - 1], and 0 at the start of a block
RECURSIVE Reconstruct(_, _, _)
Reconstruct(lines, i, last_y1) ==
    IF i > Len(lines) THEN << >>
    ELSE LET l == lines[i]
             same == i > 1 /\ lines[i - 1].page = l.page /\ lines[i - 1].block = l.block
             base == IF same THEN last_y1 ELSE 0
         IN  IF l.spans = << >> \/ Len(LineText(l.spans)) < 2
             THEN Reconstruct(lines, i + 1, base)
             ELSE <<[page |-> l.page,
                     text |-> LineText(l.spans),
                     size |-> Round2(l.spans[1].size2),
                     font |-> l.spans[1].font,
                     is_bold |-> ContainsBold(l.spans[1].font),
                     space_above |-> l.y0 - base,
                     y0 |-> l.y0]>>
                  \o Reconstruct(lines, i + 1, l.y1)

reconstruct_lines_with_spacing(d) == Reconstruct(d.lines, 1, 0)

\* the ratios 1.3, 1.2, 1.1, 0.8 and 0.85 as tenths and hundredths
CoverRatio == 13

TitleRatio == 12

HeadingRatio == 11

GapRatio == 8

FooterPercent == 85

CoverMinLines == 3

CoverMinGap == 5

looks_like_cover_page(lines, body) ==
    LET large_lines ==
            SelectSeq(lines, LAMBDA l : l.page = 1 /\ l.size * 10 > body * CoverRatio)
    IN  /\ Len(large_lines) >= CoverMinLines
        /\ \A i \in 2..Len(large_lines) : large_lines[i].space_above > CoverMinGap

extract_title_from_cover(lines, body) ==
    LET large ==
            SelectSeq(lines, LAMBDA l : l.page = 1 /\ l.size * 10 > body * TitleRatio)
    IN  Strip(JoinSpace([i \in 1..Len(large) |-> large[i].text]))

----------------------------------------------------------------------------
(* analyze_document_structure: footers                                     *)

\* pages_to_scan (0-based), a list: a page can occur twice
FooterPages(page_count) ==
    SelectSeq(<<0, 1, page_count - 2, page_count - 1>>,
              LAMBDA p : 0 <= p /\ p < page_count)

\* line["page"] == page_num + 1 and line["y0"] >= footer_start, with
\* footer_start = doc[page_num].rect.height * 0.85
InFooterZone(d, line, page_num) ==
    /\ line.page = page_num + 1
    /\ line.y0 * 100 >= d.heights[page_num + 1] * FooterPercent

\* footers[text] after the scan of pages[i..]
RECURSIVE FooterCount(_, _, _, _, _)
FooterCount(d, lines, pages, i, text) ==
    IF i > Len(pages) THEN 0
    ELSE Cardinality({j \in 1..Len(lines) :
                          InFooterZone(d, lines[j], pages[i]) /\ lines[j].text = text})
         + FooterCount(d, lines, pages, i + 1, text)

FootersToIgnore(d, lines) ==
    {t \in {lines[j].text : j \in 1..Len(lines)} :
        FooterCount(d, lines, FooterPages(d.page_count), 1, t) > 1}

----------------------------------------------------------------------------
(* analyze_document_structure: heading candidates                          *)

MinTextLen == 4

ListMaxWords == 10

\* the junk patterns, each a `continue`
IsJunk(text, footers) ==
    \/ text \in footers
    \/ IsDotsLine(text)
    \/ IsPureNumber(text)
    \/ Len(text) < MinTextLen
    \/ IsTableOfContents(text)
    \/ IsListPrefix(text) /\ WordCount(text) > ListMaxWords

BoldScore == 3

SizeScore == 3

GapScore == 2

ShortScore == 1

ShortMaxWords == 15

StructuredScore == 2

StructuredMaxWords == 10

SentencePenalty == 3

SentenceMinWords == 8

AcceptScore == 4

Score(line, body) ==
    LET text == Strip(line.text)
    IN  (IF line.is_bold THEN BoldScore ELSE 0)
      + (IF line.size * 10 > body * HeadingRatio THEN SizeScore ELSE 0)
      + (IF line.space_above * 10 > body * GapRatio THEN GapScore ELSE 0)
      + (IF WordCount(text) < ShortMaxWords THEN ShortScore ELSE 0)
      + (IF IsStructuredHeading(text) /\ WordCount(text) <= StructuredMaxWords
         THEN StructuredScore ELSE 0)
      - (IF EndsWithDot(text) /\ WordCount(text) > SentenceMinWords
         THEN SentencePenalty ELSE 0)

\* mutant of IsCandidate: the score has to exceed the threshold
IsCandidate_Strict(line, body, footers) ==
    /\ ~IsJunk(Strip(line.text), footers)
    /\ Score(line, body) > AcceptScore

IsCandidate(line, body, footers) ==
    /\ ~IsJunk(Strip(line.text), footers)
    /\ Score(line, body) >= AcceptScore

Candidates(lines, body, footers) ==
    SelectSeq(lines, LAMBDA l : IsCandidate(l, body, footers))

----------------------------------------------------------------------------
(* analyze_document_structure: heading levels and the outline              *)

DigitSeq == <<"0", "1", "2", "3", "4", "5", "6", "7", "8", "9">>

\* str(n) for n >= 0
RECURSIVE Decimal(_)
Decimal(n) ==
    IF n < 10 THEN <<DigitSeq[n + 1]>>
    ELSE Decimal(n \div 10) \o <<DigitSeq[(n % 10) + 1]>>

\* f"H{i+1}" for the 0-based index i
HLevel(i) == <<"H">> \o Decimal(i + 1)

\* the default of style_to_level.get
DefaultLevel == <<"H", "4">>

Style(c) == <<c.size, c.is_bold>>

\* tuple comparison of (size, is_bold), with True > False
StyleGreater(a, b) == a[1] > b[1] \/ (a[1] = b[1] /\ a[2] /\ ~b[2])

\* sorted(styles, reverse=True)
RECURSIVE SortedDesc(_)
SortedDesc(styles) ==
    IF styles = {} THEN << >>
    ELSE LET m == CHOOSE a \in styles : \A b \in styles \ {a} : StyleGreater(a, b)
         IN  <<m>> \o SortedDesc(styles \ {m})

\* mutant of heading_styles: sorted without reverse=True
heading_styles_Ascending(cands) ==
    LET hs == SortedDesc({Style(cands[i]) : i \in 1..Len(cands)})
    IN  [i \in 1..Len(hs) |-> hs[Len(hs) + 1 - i]]

heading_styles(cands) == SortedDesc({Style(cands[i]) : i \in 1..Len(cands)})

\* {style: f"H{i+1}" for i, style in enumerate(heading_styles)}
style_to_level(cands) ==
    LET hs == heading_styles(cands)
    IN  [st \in {hs[i] : i \in 1..Len(hs)} |->
            HLevel((CHOOSE i \in 1..Len(hs) : hs[i] = st) - 1)]

\* the candidates whose (text, page) key is not in seen, first occurrence
\* only
RECURSIVE Emitted(_, _, _)
Emitted(cands, i, seen) ==
    IF i > Len(cands) THEN << >>
    ELSE LET key == <<cands[i].text, cands[i].page>>
         IN  IF key \notin seen
             THEN <<cands[i]>> \o Emitted(cands, i + 1, seen \cup {key})
             ELSE Emitted(cands, i + 1, seen)

\* c["page"] - 1 if is_cover and c["page"] > 1 else c["page"]
AdjPage(c, cover) == IF cover /\ c.page > 1 THEN c.page - 1 ELSE c.page

OutlineEntry(c, levels, cover) ==
    [level |-> IF Style(c) \in DOMAIN levels THEN levels[Style(c)] ELSE DefaultLevel,
     text |-> c.text,
     page |-> AdjPage(c, cover)]

----------------------------------------------------------------------------
(* analyze_document_structure: the title                                   *)

TitleLine(line, body, footers) ==
    /\ line.page = 1
    /\ line.size * 10 > body * TitleRatio
    /\ line.text \notin footers

\* mutant of TitleWalk: the loop without its break
RECURSIVE TitleWalk_NoBreak(_, _, _, _, _)
TitleWalk_NoBreak(lines, i, t, body, footers) ==
    IF i > Len(lines) THEN t
    ELSE IF TitleLine(lines[i], body, footers)
         THEN TitleWalk_NoBreak(lines, i + 1, t \o lines[i].text \o <<" ">>, body, footers)
    ELSE TitleWalk_NoBreak(lines, i + 1, t, body, footers)

\* the loop of the non-cover branch, from line i on with the title t so far
RECURSIVE TitleWalk(_, _, _, _, _)
TitleWalk(lines, i, t, body, footers) ==
    IF i > Len(lines) THEN t
    ELSE IF TitleLine(lines[i], body, footers)
         THEN TitleWalk(lines, i + 1, t \o lines[i].text \o <<" ">>, body, footers)
    ELSE IF t # << >> THEN t
    ELSE TitleWalk(lines, i + 1, t, body, footers)

ExtractedTitle(lines, body, footers, cover) ==
    IF cover THEN extract_title_from_cover(lines, body)
    ELSE Strip(TitleWalk(lines, 1, << >>, body, footers))

Untitled ==
    <<"U", "n", "t", "i", "t", "l", "e", "d", " ",
      "D", "o", "c", "u", "m", "e", "n", "t">>

\* `not x` for a string or None
Falsy(x) == x = None \/ x = << >>

\* mutant of Fallback: no "Untitled Document" at the end of the chain
Fallback_NoDefault(d, ol) ==
    IF ~Falsy(clean_title(d.meta_title)) THEN clean_title(d.meta_title)
    ELSE IF ol # << >> THEN ol[1].text
    ELSE << >>

\* clean_title(metadata title) or (outline[0]["text"] if outline else ...)
Fallback(d, ol) ==
    IF ~Falsy(clean_title(d.meta_title)) THEN clean_title(d.meta_title)
    ELSE IF ol # << >> THEN ol[1].text
    ELSE Untitled

----------------------------------------------------------------------------
(* Texts and fonts of the documents checked                                *)

TextIntro ==
    <<"I", "n", "t", "r", "o">>

TextScope ==
    <<"1", ".", " ", "S", "c", "o", "p", "e">>

TextHash ==
    <<"#", " ", "I", "n", "t", "r", "o">>

TextNumber ==
    <<"1", "2", ".">>

TextBody ==
    <<"a", "b", " ", "c", "d">>

TextClaimed ==
    <<"1", ".", " ", "I", "n", "t", "r", "o", "!", "!", " ", " ", "t", "o",
      " ", " ", " ", "S", "y", "s", "t", "e", "m", "s">>

TextDots ==
    <<".", ".", ".", ".", ".">>

TextContents ==
    <<"T", "a", "b", "l", "e", " ", "o", "f", " ", "C", "o", "n", "t", "e",
      "n", "t", "s">>

TextList10 ==
    <<"2", ")", " ", "a", " ", "a", " ", "a", " ", "a", " ", "a", " ", "a",
      " ", "a", " ", "a", " ", "a">>

TextList11 ==
    <<"2", ")", " ", "a", " ", "a", " ", "a", " ", "a", " ", "a", " ", "a",
      " ", "a", " ", "a", " ", "a", " ", "a">>

TextLetter11 ==
    <<"A", ")", " ", "a", " ", "a", " ", "a", " ", "a", " ", "a", " ", "a",
      " ", "a", " ", "a", " ", "a", " ", "a">>

TextLetterHead ==
    <<"A", ")", " ", "B", "c">>

TextDotted ==
    <<"1", ".", "2", ".", " ", "B", "c">>

TextSentence8 ==
    <<"a", " ", "a", " ", "a", " ", "a", " ", "a", " ", "a", " ", "a", " ",
      "a", ".">>

TextSentence9 ==
    <<"a", " ", "a", " ", "a", " ", "a", " ", "a", " ", "a", " ", "a", " ",
      "a", " ", "a", ".">>

TextWords14 ==
    <<"a", " ", "a", " ", "a", " ", "a", " ", "a", " ", "a", " ", "a", " ",
      "a", " ", "a", " ", "a", " ", "a", " ", "a", " ", "a", " ", "a">>

TextWords15 ==
    <<"a", " ", "a", " ", "a", " ", "a", " ", "a", " ", "a", " ", "a", " ",
      "a", " ", "a", " ", "a", " ", "a", " ", "a", " ", "a", " ", "a", " ",
      "a">>

TextShort ==
    <<"A", "b", "c">>

TextReport ==
    <<"R", "e", "p", "o", "r", "t">>

FontRegular ==
    <<"A", "r", "i", "a", "l">>

FontBold ==
    <<"A", "r", "i", "a", "l", "-", "B", "o", "l", "d", "M", "T">>

----------------------------------------------------------------------------
(* The documents checked                                                   *)

MaxLines == 3

MaxPages == 2

PageHeight == 100

LineHeight == 2

Span(text, size2, font) == [text |-> text, size2 |-> size2, font |-> font]

\* a line of one span; join: the line continues the block of the line
\* before it
Kind(text, size2, font, y0, join) ==
    [spans |-> <<Span(text, size2, font)>>, y0 |-> y0, y1 |-> y0 + LineHeight,
     join |-> join]

\* a paragraph line of three spans in the body font of size2 half points
BodyKind(size2) ==
    [spans |-> <<Span(TextBody, size2, FontRegular), Span(TextBody, size2, FontRegular),
                 Span(TextBody, size2, FontRegular)>>,
     y0 |-> 9, y1 |-> 9 + LineHeight, join |-> FALSE]

\* a large bold heading, the same text smaller and regular, a numbered
\* heading, the numbered heading in the footer zone, and a paragraph line
LineKinds ==
    {Kind(TextHash, 28, FontBold, 20, FALSE),
     Kind(TextHash, 24, FontRegular, 20, FALSE),
     Kind(TextScope, 24, FontBold, 20, FALSE),
     Kind(TextScope, 28, FontBold, 90, FALSE),
     Kind(TextBody, 20, FontRegular, 24, TRUE)}

\* the first large line of a cover page, and the ones after it
CoverFirstKinds ==
    {Kind(TextHash, 32, FontBold, 20, FALSE),
     Kind(TextIntro, 32, FontRegular, 20, FALSE)}

CoverKinds ==
    {Kind(TextHash, 28, FontBold, 20, FALSE),
     Kind(TextIntro, 28, FontRegular, 20, FALSE)}

TestTexts ==
    {TextIntro, TextClaimed, TextDots, TextContents, TextList10, TextList11,
     TextLetter11, TextLetterHead, TextDotted, TextSentence8, TextSentence9,
     TextWords14, TextWords15, TextShort, TextNumber, <<"A">>}

TestKinds ==
    {Kind(t, s, f, y, FALSE) :
        t \in TestTexts, s \in {20, 22, 23, 25, 28},
        f \in {FontRegular, FontBold}, y \in {8, 9, 90}}
    \cup {[spans |-> << >>, y0 |-> 20, y1 |-> 20 + LineHeight, join |-> FALSE]}

MetaTitles == {<< >>, TextReport}

\* the block of line i: a new block unless the line joins the block of the
\* line before it on the same page
RECURSIVE BlockOf(_, _, _)
BlockOf(kinds, pages, i) ==
    IF i = 1 THEN 1
    ELSE IF kinds[i].join /\ pages[i] = pages[i - 1] THEN BlockOf(kinds, pages, i - 1)
    ELSE BlockOf(kinds, pages, i - 1) + 1

MakeDoc(kinds, pages, page_count, meta) ==
    [page_count |-> page_count,
     heights |-> [p \in 1..page_count |-> PageHeight],
     lines |-> [i \in 1..Len(kinds) |->
                   [page |-> pages[i], block |-> BlockOf(kinds, pages, i),
                    spans |-> kinds[i].spans, y0 |-> kinds[i].y0, y1 |-> kinds[i].y1]],
     meta_title |-> meta]

\* the page of each of n lines, in reading order
PageSeqs(n) ==
    {ps \in [1..n -> 1..MaxPages] : \A i \in 1..(n - 1) : ps[i] <= ps[i + 1]}

LastPage(ps) == IF ps = << >> THEN 1 ELSE ps[Len(ps)]

\* up to MaxLines lines, each with its page
Contents == UNION {[1..k -> LineKinds] \X PageSeqs(k) : k \in 0..MaxLines}

\* up to MaxLines lines on up to MaxPages pages, after an optional paragraph
\* on page 1
SmallDocs ==
    {MakeDoc(pre \o c[1], [i \in 1..Len(pre) |-> 1] \o c[2], n, meta) :
        pre \in {<< >>, <<BodyKind(20)>>},
        c \in Contents,
        n \in 1..MaxPages,
        meta \in MetaTitles}

\* a paragraph, three large separated lines on page 1, and up to one more
\* line
CoverDocs ==
    {MakeDoc(<<BodyKind(20), c1, c2, c3>> \o x,
             <<1, 1, 1, 1>> \o [i \in 1..Len(x) |-> p], MaxPages, meta) :
        c1 \in CoverFirstKinds, c2 \in CoverKinds, c3 \in CoverKinds,
        x \in {<< >>} \cup {<<k>> : k \in LineKinds},
        p \in 1..MaxPages,
        meta \in MetaTitles}

\* a paragraph and one line of any text, size, font and position
TestDocs ==
    {MakeDoc(<<BodyKind(b), k>>, <<1, 1>>, 1, << >>) :
        b \in {20, 24}, k \in TestKinds}

EmptyDoc == MakeDoc(<< >>, << >>, 0, << >>)

WellFormed(d) ==
    /\ Len(d.lines) > 0 => d.lines[Len(d.lines)].page <= d.page_count

Docs ==
    {d \in SmallDocs \cup CoverDocs \cup TestDocs \cup {EmptyDoc} : WellFormed(d)}

----------------------------------------------------------------------------
(* analyze_document_structure, step by step                                *)

Init ==
    /\ doc \in Docs
    /\ pc = "start"
    /\ body_size = 0
    /\ all_lines = << >>
    /\ is_cover = FALSE
    /\ footers_to_ignore = {}
    /\ candidates = << >>
    /\ outline = << >>
    /\ emitted = << >>
    /\ defaulted = FALSE
    /\ title = << >>
    /\ cleaned = None

\* if doc.page_count == 0: return "Untitled Document", []
EarlyReturn ==
    /\ pc = "start"
    /\ doc.page_count = 0
    /\ title' = Untitled
    /\ outline' = << >>
    /\ pc' = "done"
    /\ UNCHANGED <<doc, body_size, all_lines, is_cover, footers_to_ignore,
                   candidates, emitted, defaulted, cleaned>>

\* body_size = get_body_style(doc); all_lines = reconstruct_...(doc)
Measure ==
    /\ pc = "start"
    /\ doc.page_count # 0
    /\ body_size' = get_body_style(doc)
    /\ all_lines' = reconstruct_lines_with_spacing(doc)
    /\ pc' = "cover"
    /\ UNCHANGED <<doc, is_cover, footers_to_ignore, candidates, outline, emitted,
                   defaulted, title, cleaned>>

\* is_cover = looks_like_cover_page(all_lines, body_size)
DetectCover ==
    /\ pc = "cover"
    /\ is_cover' = looks_like_cover_page(all_lines, body_size)
    /\ pc' = "footers"
    /\ UNCHANGED <<doc, body_size, all_lines, footers_to_ignore, candidates, outline,
                   emitted, defaulted, title, cleaned>>

\* the footer scan and footers_to_ignore
IdentifyFooters ==
    /\ pc = "footers"
    /\ footers_to_ignore' = FootersToIgnore(doc, all_lines)
    /\ pc' = "score"
    /\ UNCHANGED <<doc, body_size, all_lines, is_cover, candidates, outline, emitted,
                   defaulted, title, cleaned>>

\* Step 2: the candidates
ScoreLines ==
    /\ pc = "score"
    /\ candidates' = Candidates(all_lines, body_size, footers_to_ignore)
    /\ pc' = "levels"
    /\ UNCHANGED <<doc, body_size, all_lines, is_cover, footers_to_ignore, outline,
                   emitted, defaulted, title, cleaned>>

\* the heading levels and the outline; emitted keeps the candidate each
\* outline entry was made from
AssignLevels ==
    /\ pc = "levels"
    /\ LET levels == style_to_level(candidates)
           kept == IF candidates # << >> THEN Emitted(candidates, 1, {}) ELSE << >>
       IN  /\ emitted' = kept
           /\ outline' = [i \in 1..Len(kept) |-> OutlineEntry(kept[i], levels, is_cover)]
           /\ defaulted' = \E i \in 1..Len(kept) : Style(kept[i]) \notin DOMAIN levels
    /\ pc' = "title"
    /\ UNCHANGED <<doc, body_size, all_lines, is_cover, footers_to_ignore, candidates,
                   title, cleaned>>

\* the title of the cover or of the first run of large lines
ExtractTitle ==
    /\ pc = "title"
    /\ title' = ExtractedTitle(all_lines, body_size, footers_to_ignore, is_cover)
    /\ pc' = "sanitize"
    /\ UNCHANGED <<doc, body_size, all_lines, is_cover, footers_to_ignore, candidates,
                   outline, emitted, defaulted, cleaned>>

\* cleaned = clean_title(title)
SanitizeTitle ==
    /\ pc = "sanitize"
    /\ cleaned' = clean_title(title)
    /\ pc' = "fallback"
    /\ UNCHANGED <<doc, body_size, all_lines, is_cover, footers_to_ignore, candidates,
                   outline, emitted, defaulted, title>>

\* if not cleaned: cleaned = ...; title = cleaned; return title, outline
ReturnTitle ==
    /\ pc = "fallback"
    /\ LET c == IF Falsy(cleaned) THEN Fallback(doc, outline) ELSE cleaned
       IN  /\ cleaned' = c
           /\ title' = c
    /\ pc' = "done"
    /\ UNCHANGED <<doc, body_size, all_lines, is_cover, footers_to_ignore, candidates,
                   outline, emitted, defaulted>>

Next ==
    \/ EarlyReturn
    \/ Measure
    \/ DetectCover
    \/ IdentifyFooters
    \/ ScoreLines
    \/ AssignLevels
    \/ ExtractTitle
    \/ SanitizeTitle
    \/ ReturnTitle

Spec == Init /\ [][Next]_vars

----------------------------------------------------------------------------
(* Properties                                                              *)

Scored == pc \in {"levels", "title", "sanitize", "fallback", "done"}

Outlined == pc \in {"title", "sanitize", "fallback", "done"}

\* C1: the title returned is a non-empty string, whichever step of the
\* fallback chain supplies it.
C1_TitleNonEmpty == pc = "done" => (title # None /\ Len(title) >= 1)

\* a document whose extracted title and metadata title are both rejected and
\* whose title is the text of the first outline entry
C1_Witness ==
    /\ pc = "done"
    /\ doc.page_count > 0
    /\ Falsy(clean_title(ExtractedTitle(all_lines, body_size, footers_to_ignore, is_cover)))
    /\ Falsy(clean_title(doc.meta_title))
    /\ outline # << >>
    /\ title = outline[1].text

\* C2: the title returned is unchanged by the sanitizer: only word
\* characters, whitespace, hyphens and colons, no run of whitespace and no
\* leading or trailing whitespace.
C2_TitleSanitized == pc = "done" => title = Sanitize(title)

\* C3: no two outline entries have the same (text, reported page).
C3_NoDuplicateEntries ==
    Outlined =>
        \A i, j \in 1..Len(outline) :
            i < j => <<outline[i].text, outline[i].page>> # <<outline[j].text, outline[j].page>>

\* C4: on a cover-page document no outline entry comes from a line of
\* page 1.
C4_NoCoverPageEntries ==
    (Outlined /\ is_cover) => \A i \in 1..Len(emitted) : emitted[i].page > 1

TextClaimedWithDot ==
    <<"1", ".", " ", "I", "n", "t", "r", "o", " ", "t", "o", " ",
      "S", "y", "s", "t", "e", "m", "s">>

TextClaimedNoDot ==
    <<"1", " ", "I", "n", "t", "r", "o", " ", "t", "o", " ",
      "S", "y", "s", "t", "e", "m", "s">>

\* the characters of s that are not whitespace
NonSpace(s) == SelectSeq(s, LAMBDA c : ~IsSpace(c))

\* C5 as claimed: the title "1. Intro!!  to   Systems" sanitizes to
\* "1. Intro to Systems".
C5_Original ==
    (pc = "fallback" /\ title = TextClaimed) => cleaned = TextClaimedWithDot

\* C5 as amended: a sanitized title keeps, in order, exactly the characters
\* that are word characters, hyphens or colons, with single spaces between
\* them, and the title "1. Intro!!  to   Systems" sanitizes to
\* "1 Intro to Systems": the '.' is removed with the '!'.
C5_SanitizeRemovesDot ==
    pc = "fallback" =>
        /\ cleaned # None =>
              /\ NonSpace(cleaned)
                     = SelectSeq(title, LAMBDA c : IsWordChar(c) \/ c \in {"-", ":"})
              /\ \A i \in 1..(Len(cleaned) - 1) :
                     ~(IsSpace(cleaned[i]) /\ IsSpace(cleaned[i + 1]))
        /\ title = TextClaimed => cleaned = TextClaimedNoDot

C5_Witness == pc = "fallback" /\ title = TextClaimed /\ cleaned = TextClaimedNoDot

\* the score as the claim states it
C6_Score(l) ==
    (IF l.is_bold THEN 3 ELSE 0)
  + (IF 10 * l.size > 11 * body_size THEN 3 ELSE 0)
  + (IF 10 * l.space_above > 8 * body_size THEN 2 ELSE 0)
  + (IF WordCount(l.text) < 15 THEN 1 ELSE 0)
  + (IF IsStructuredHeading(l.text) /\ WordCount(l.text) <= 10 THEN 2 ELSE 0)
  - (IF EndsWithDot(l.text) /\ WordCount(l.text) > 8 THEN 3 ELSE 0)

IsHeadingCandidate(l) == \E j \in 1..Len(candidates) : candidates[j] = l

\* C6: a line that passes the junk and footer rules is a heading candidate
\* if and only if its score is at least 4.
C6_CandidateIffScore ==
    Scored =>
        \A i \in 1..Len(all_lines) :
            ~IsJunk(all_lines[i].text, footers_to_ignore) =>
                (IsHeadingCandidate(all_lines[i]) <=> C6_Score(all_lines[i]) >= 4)

\* a line scoring exactly 3 is left out and a line scoring exactly 4 is a
\* candidate
C6_Witness ==
    /\ Scored
    /\ \E i, j \in 1..Len(all_lines) :
           /\ ~IsJunk(all_lines[i].text, footers_to_ignore)
           /\ C6_Score(all_lines[i]) = 3
           /\ ~IsHeadingCandidate(all_lines[i])
           /\ ~IsJunk(all_lines[j].text, footers_to_ignore)
           /\ C6_Score(all_lines[j]) = 4
           /\ IsHeadingCandidate(all_lines[j])

\* the number n of the level label "Hn"
LevelNumber(level) == CHOOSE n \in 1..(Len(candidates) + 4) : HLevel(n - 1) = level

CandidateStyles == {Style(candidates[i]) : i \in 1..Len(candidates)}

\* the 1-based rank of a style among the candidate styles, largest first
StyleRank(st) == 1 + Cardinality({o \in CandidateStyles : StyleGreater(o, st)})

\* larger styles have smaller levels, equal styles equal levels, and the
\* default level is never taken
C7_Ordered ==
    /\ \A i, j \in 1..Len(outline) :
           /\ StyleGreater(Style(emitted[i]), Style(emitted[j]))
                  => LevelNumber(outline[i].level) < LevelNumber(outline[j].level)
           /\ Style(emitted[i]) = Style(emitted[j]) => outline[i].level = outline[j].level
    /\ \A i \in 1..Len(outline) :
           outline[i].level = HLevel(StyleRank(Style(emitted[i])) - 1)
    /\ ~defaulted

\* C7 as claimed: the levels are the ranks of the candidate styles, and the
\* levels used in the outline are exactly H1..Hn for n candidate styles.
C7_Original ==
    Outlined =>
        /\ C7_Ordered
        /\ {outline[i].level : i \in 1..Len(outline)}
               = {HLevel(k - 1) : k \in 1..Cardinality(CandidateStyles)}

\* candidate i repeats the (text, page) of an earlier candidate
IsRepeat(i) ==
    \E j \in 1..(i - 1) :
        candidates[j].text = candidates[i].text /\ candidates[j].page = candidates[i].page

\* C7 as amended: the levels are the ranks of the candidate styles; the
\* levels used in the outline are among H1..Hn, and Hk is missing from the
\* outline only when every candidate of the k-th style repeats the
\* (text, page) of an earlier candidate.
C7_LevelsByStyleRank ==
    Outlined =>
        /\ C7_Ordered
        /\ {outline[i].level : i \in 1..Len(outline)}
               \subseteq {HLevel(k - 1) : k \in 1..Cardinality(CandidateStyles)}
        /\ \A st \in CandidateStyles :
               \/ \E i \in 1..Len(outline) : outline[i].level = HLevel(StyleRank(st) - 1)
               \/ \A i \in 1..Len(candidates) : Style(candidates[i]) = st => IsRepeat(i)

\* an outline with two levels, and a candidate style whose level is missing
\* from it
C7_Witness ==
    /\ Outlined
    /\ \E i, j \in 1..Len(outline) : StyleGreater(Style(emitted[i]), Style(emitted[j]))
    /\ \E st \in CandidateStyles :
           \A i \in 1..Len(outline) : outline[i].level # HLevel(StyleRank(st) - 1)

Footered == pc \in {"score", "levels", "title", "sanitize", "fallback", "done"}

\* the lines in the footer zone of a sampled page, each counted once
FooterZoneLines ==
    {j \in 1..Len(all_lines) :
        \E p \in {0, 1, doc.page_count - 2, doc.page_count - 1} :
            /\ 0 <= p /\ p < doc.page_count
            /\ InFooterZone(doc, all_lines[j], p)}

\* C8: the footer-exclusion set is the one obtained when each sampled page
\* is scanned once, so a text of a single footer-zone line is never in it.
C8_ListScanEqualsSetScan ==
    Footered =>
        footers_to_ignore
            = {t \in {all_lines[j].text : j \in 1..Len(all_lines)} :
                  Cardinality({j \in FooterZoneLines : all_lines[j].text = t}) > 1}

\* digits followed by '.', ')' or ':' and whitespace
C9_DigitPrefix(text) ==
    \E n \in 1..Len(text) :
        /\ \A i \in 1..n : text[i] \in Digits
        /\ Len(text) >= n + 2
        /\ text[n + 1] \in {".", ")", ":"}
        /\ IsSpace(text[n + 2])

\* a letter followed by '.', ')' or ':' and whitespace
C9_LetterPrefix(text) ==
    /\ Len(text) >= 3
    /\ IsAlpha(text[1])
    /\ text[2] \in {".", ")", ":"}
    /\ IsSpace(text[3])

\* C9 as claimed: a line with a numbered or lettered list-item prefix and
\* more than 10 words is never a heading candidate.
C9_Original ==
    Scored =>
        \A i \in 1..Len(candidates) :
            ~(/\ C9_DigitPrefix(candidates[i].text) \/ C9_LetterPrefix(candidates[i].text)
              /\ WordCount(candidates[i].text) > 10)

\* C9 as amended: a line with a numbered list-item prefix (digits, then
\* '.', ')' or ':', then whitespace) and more than 10 words is never a
\* heading candidate; a lettered prefix does not exclude a line.
C9_NumberedListNeverCandidate ==
    Scored =>
        \A i \in 1..Len(candidates) :
            ~(C9_DigitPrefix(candidates[i].text) /\ WordCount(candidates[i].text) > 10)

\* a numbered line of more than 10 words whose score is at least 4 and that
\* is no candidate
C9_Witness ==
    /\ Scored
    /\ \E i \in 1..Len(all_lines) :
           /\ C9_DigitPrefix(all_lines[i].text)
           /\ WordCount(all_lines[i].text) > 10
           /\ Score(all_lines[i], body_size) >= 4
           /\ ~IsHeadingCandidate(all_lines[i])

\* line i is a large line of page 1 outside the footer-exclusion set
C10_Qualifies(i) ==
    /\ all_lines[i].page = 1
    /\ 10 * all_lines[i].size > 12 * body_size
    /\ all_lines[i].text \notin footers_to_ignore

\* lines s..e are the first maximal run of qualifying lines
C10_FirstRun(s, e) ==
    /\ s <= e
    /\ \A i \in 1..(s - 1) : ~C10_Qualifies(i)
    /\ \A i \in s..e : C10_Qualifies(i)
    /\ e = Len(all_lines) \/ ~C10_Qualifies(e + 1)

\* C10: without a cover page the extracted title is the space-joined text
\* of the first maximal run of qualifying lines, and empty when no line
\* qualifies.
C10_TitleIsFirstRun ==
    (pc = "sanitize" /\ ~is_cover) =>
        /\ (\A i \in 1..Len(all_lines) : ~C10_Qualifies(i)) => title = << >>
        /\ \A s, e \in 1..Len(all_lines) :
               C10_FirstRun(s, e)
                   => title = JoinSpace([k \in 1..(e - s + 1) |-> all_lines[s + k - 1].text])

\* a line is skipped before the run, the run ends at a line that does not
\* qualify, and a qualifying line follows later
C10_Witness ==
    /\ pc = "sanitize"
    /\ ~is_cover
    /\ \E s, e \in 1..Len(all_lines) :
           /\ C10_FirstRun(s, e)
           /\ s > 1
           /\ \E i \in (e + 2)..Len(all_lines) : C10_Qualifies(i)

====
